---------------------------- MODULE Spec2Model ----------------------------
(***************************************************************************)
(* AliExpress-Price-Checker: the Scraper/Driver life cycle                 *)
(* (scraper/driver.py, scraper/scraper.py, scraper/scraperutils.py,        *)
(* scraper/exceptions.py) and the spreadsheet side (ui/app.py,             *)
(* sheetManager/sheet_manager.py).                                         *)
(*                                                                         *)
(* The browser, the AliExpress pages and the Google sheet are the          *)
(* environment: what a lookup finds is drawn with \E at the step that      *)
(* performs the lookup.  Texts are sequences of tokens so that slicing     *)
(* ([:3], [3:]) and substring tests are computed, not assumed.             *)
(***************************************************************************)
EXTENDS Integers, Sequences, FiniteSets, TLC

VARIABLES
    country,      \* Driver.country  (constructor argument)
    currency,     \* Driver.currency (constructor argument)
    drv,          \* the Chrome driver: [alive, location]
    dpc,          \* position inside Driver.setUpDriver
    flagClass,    \* setUpDriver local: value returned by setUpCountry
    currencyCode, \* setUpDriver local: value returned by setUpCurrency
    site,         \* settings of the site session: [country, currency]
    calls,        \* methods the current setUpDriver call has called, in order
    countryCall,  \* outcome of setUpCountry: [filtered, clicked, exc]
    currencyCall, \* outcome of setUpCurrency: [filtered, clicked, exc]
    flagSeen,     \* the wait on the country flag succeeded
    currencySeen, \* the wait on the currency code succeeded
    dexc,         \* exception raised by setUpDriver ("" when none)
    spc,          \* position of the Scraper object / of scrapeURL
    current_url,  \* Scraper.current_url
    tracking,     \* scrapeURL argument
    retryCount,   \* Scraper.retryCount
    resets,       \* driver resets since the outermost scrapeURL call began
    steps,        \* steps performed by the current scrapeURL invocation
    dom,          \* what the current invocation found on the page
    pageAvail,    \* value returned by checkPageAvailability
    availResult,  \* value returned / exception raised by checkAvailability
    result,       \* value returned by scrapeURL
    exc,          \* exception raised by scrapeURL ("" when none)
    sheet,        \* the worksheet: row -> [A, B, C, D]
    opc,          \* position inside App.on_click
    urls,         \* on_click local: value returned by getItemUrls
    pairs,        \* on_click: the (url, item cell) pairs the loop produced
    written,      \* on_click: cells written by sh.write
    oexc,         \* exception raised by on_click ("" when none)
    method,       \* the method called directly ("" before the call)
    minput,       \* what that call was given and found on the page
    mret,         \* the value it returned
    mexc          \* the exception it raised ("" when it returned)

driverVars == <<country, currency, drv, dpc, flagClass, currencyCode, site,
                calls, countryCall, currencyCall, flagSeen, currencySeen,
                dexc>>
scrapeVars == <<spc, current_url, tracking, retryCount, resets, steps, dom,
                pageAvail, availResult, result, exc>>
sheetVars  == <<sheet, opc, urls, pairs, written, oexc>>
methodVars == <<method, minput, mret, mexc>>
vars       == <<driverVars, scrapeVars, sheetVars, methodVars>>

---------------------------------------------------------------------------
(* Bounds *)

\* retryCount is unbounded in the code; the model stops resetting here.
MaxRetryCount == 7
\* rows of the worksheet below the three header rows
MaxRows == 3

---------------------------------------------------------------------------
(* Program constants *)

RETRIES == 5

\* Driver.URL
URL == <<"https://www.aliexpress.com/">>

\* the page a freshly created Chrome shows before any driver.get
BlankPage == <<"data:,">>

\* Python's None, as a value that is no text
None == <<"<None>">>

---------------------------------------------------------------------------
(* Texts *)

\* needle in hay (Python `in` on str, re.search of a literal)
Contains(hay, needle) ==
    \E i \in 0..(Len(hay) - Len(needle)) :
        \A j \in 1..Len(needle) : hay[i + j] = needle[j]

\* str.lower() on one character
LowerChar(c) ==
    CASE c = "U" -> "u"
      [] c = "S" -> "s"
      [] c = "D" -> "d"
      [] c = "E" -> "e"
      [] c = "R" -> "r"
      [] c = "United States" -> "united states"
      [] OTHER   -> c

\* str.lower()
Lower(s) == [i \in 1..Len(s) |-> LowerChar(s[i])]

\* Python truthiness of an Optional[str] argument
Truthy(x) == x # None /\ x # <<>>

---------------------------------------------------------------------------
(* scraper/exceptions.py *)

\* What evaluating  Invalid<Kind>NavigationException(url=..., ...)  gives.
\* InvalidXpathNavigationException and InvalidClassNameNavigationException
\* take (xpath | className, message, elementName): every call site passes
\* url=..., which __init__ rejects with TypeError.  InvalidIdNavigation-
\* Exception and InvalidTagNameNavigationException are not defined in
\* exceptions.py, so naming them raises NameError.
NavigationException(kind) ==
    CASE kind = "xpath"     -> "TypeError"
      [] kind = "className" -> "TypeError"
      [] kind = "id"        -> "NameError"
      [] kind = "tagName"   -> "NameError"

---------------------------------------------------------------------------
(* The AliExpress settings menu, as the driver finds it *)

\* constructor arguments tried: no value, a value the site knows (in a
\* spelling that needs lower()), a value the site does not know
Countries  == {None, <<"United States">>, <<"atlantis">>}
Currencies == {None, <<"U", "S", "D">>, <<"x", "y", "z">>}

\* settings of a fresh session
DefaultSite == [country |-> <<"cn">>, currency |-> <<"E", "U", "R">>]

\* the 'address-select-item' elements: the first one is a heading without
\* data-name; the site hides the items that do not match the filter input
CountryItems(typed) ==
    LET all == << [dataName |-> <<>>, dataCode |-> <<>>],
                  [dataName |-> <<"china">>, dataCode |-> <<"cn">>],
                  [dataName |-> <<"united states">>, dataCode |-> <<"us">>] >>
    IN  [i \in DOMAIN all |->
            [dataName |-> all[i].dataName,
             dataCode |-> all[i].dataCode,
             style    |-> IF all[i].dataName = typed
                          THEN <<>> ELSE <<"display: none">>]]

\* the children of the currency <ul>: a hidden item has no text
CurrencyItems(typed) ==
    LET all == << <<"E", "U", "R", " ", "(", "Euro", ")">>,
                  <<"U", "S", "D", " ", "(", "US Dollar", ")">> >>
    IN  [i \in DOMAIN all |->
            IF Contains(Lower(all[i]), typed) THEN all[i] ELSE <<>>]

\* class attribute of //*[@id="switcher-info"]/span[1]/i
FlagAttribute(s) == <<"css_flag", " ", "css_">> \o s.country

\* text of //*[@id="switcher-info"]/span[5]
CurrencyText(s) == s.currency

Min(S) == CHOOSE x \in S : \A y \in S : x <= y

---------------------------------------------------------------------------
(* Driver.setUpCountry, Driver.setUpCurrency *)

\* Both return [exc, value, filtered, clicked]: the exception raised ("" when
\* the method returns), the returned text, whether the list was filtered and
\* searched, and the index of the clicked item (0: none).
setUpCountry(dropdownLoaded, inputFound, items) ==
    IF ~dropdownLoaded \/ ~inputFound
    THEN [exc |-> NavigationException("className"), value |-> <<>>,
          filtered |-> FALSE, clicked |-> 0]
    ELSE LET visible == {i \in DOMAIN items :
                            /\ items[i].dataName # <<>>
                            /\ ~Contains(items[i].style, <<"display: none">>)}
         IN  IF visible = {}
             THEN [exc |-> "", value |-> <<>>, filtered |-> TRUE,
                   clicked |-> 0]
             ELSE [exc |-> "",
                   value |-> <<"css_">> \o items[Min(visible)].dataCode,
                   filtered |-> TRUE, clicked |-> Min(visible)]

setUpCurrency(dropdownLoaded, listFound, results) ==
    IF ~dropdownLoaded
    THEN [exc |-> NavigationException("className"), value |-> <<>>,
          filtered |-> FALSE, clicked |-> 0]
    ELSE IF ~listFound
    THEN [exc |-> NavigationException("tagName"), value |-> <<>>,
          filtered |-> FALSE, clicked |-> 0]
    ELSE IF Len(results) = 0
    THEN [exc |-> NavigationException("xpath"), value |-> <<>>,
          filtered |-> FALSE, clicked |-> 0]
    ELSE LET visible == {i \in DOMAIN results : results[i] # <<>>}
         IN  IF visible = {}
             THEN [exc |-> "", value |-> <<>>, filtered |-> TRUE,
                   clicked |-> 0]
             ELSE [exc |-> "",
                   value |-> SubSeq(results[Min(visible)], 1, 3),
                   filtered |-> TRUE, clicked |-> Min(visible)]

NoCall == [filtered |-> FALSE, clicked |-> 0, exc |-> ""]

Outcome(r) == [filtered |-> r.filtered, clicked |-> r.clicked, exc |-> r.exc]

---------------------------------------------------------------------------
(* Driver.setUpDriver *)

\* except Exception: savePageSource(driver); driver.quit(); raise e
SetUpDriver_Fail(e) ==
    /\ drv' = [drv EXCEPT !.alive = FALSE]
    /\ dpc' = "raised"
    /\ dexc' = e

\* webdriver.Chrome(...); then, when a setting was asked for,
\* driver.get(URL) and closePopups
SetUpDriver_Create ==
    /\ dpc = "create"
    /\ flagClass' = <<>>
    /\ currencyCode' = <<>>
    /\ countryCall' = NoCall
    /\ currencyCall' = NoCall
    /\ flagSeen' = FALSE
    /\ currencySeen' = FALSE
    /\ site' = DefaultSite
    /\ IF Truthy(country) \/ Truthy(currency)
       THEN \E popups \in {"closed", "intercepted"} :
              /\ calls' = <<"get", "closePopups">>
              /\ IF popups = "intercepted"
                 THEN /\ drv' = [alive |-> FALSE, location |-> URL]
                      /\ dpc' = "raised"
                      /\ dexc' = "ElementClickInterceptedException"
                 ELSE /\ drv' = [alive |-> TRUE, location |-> URL]
                      /\ dpc' = "open"
                      /\ dexc' = ""
       ELSE /\ calls' = <<>>
            /\ drv' = [alive |-> TRUE, location |-> BlankPage]
            /\ dpc' = "returned"
            /\ dexc' = ""
    /\ UNCHANGED <<country, currency, scrapeVars, sheetVars, methodVars>>

\* Driver.openSettingsMenu: what the click on 'switcher-info' does
openSettingsMenu(click) ==
    CASE click = "clicked"     -> ""
      [] click = "missing"     -> NavigationException("id")
      [] click = "intercepted" -> "ElementClickInterceptedException"

\* the step without the except branch: the first exception leaves setUpDriver
SetUpDriver_OpenSettingsMenu_NoRetry ==
    /\ dpc = "open"
    /\ \E first \in {"clicked", "missing", "intercepted"} :
          /\ calls' = calls \o <<"openSettingsMenu">>
          /\ IF openSettingsMenu(first) = ""
             THEN dpc' = "country" /\ UNCHANGED <<drv, dexc>>
             ELSE SetUpDriver_Fail(openSettingsMenu(first))
    /\ UNCHANGED <<country, currency, flagClass, currencyCode, site,
                   countryCall, currencyCall, flagSeen, currencySeen,
                   scrapeVars, sheetVars, methodVars>>

\* openSettingsMenu, and on ElementClickInterceptedException closePopups
\* and openSettingsMenu once more
SetUpDriver_OpenSettingsMenu ==
    /\ dpc = "open"
    /\ \E first \in {"clicked", "missing", "intercepted"},
          popups \in {"closed", "intercepted"},
          second \in {"clicked", "missing", "intercepted"} :
          IF openSettingsMenu(first) # "ElementClickInterceptedException"
          THEN /\ calls' = calls \o <<"openSettingsMenu">>
               /\ IF openSettingsMenu(first) = ""
                  THEN dpc' = "country" /\ UNCHANGED <<drv, dexc>>
                  ELSE SetUpDriver_Fail(openSettingsMenu(first))
          ELSE IF popups = "intercepted"
          THEN /\ calls' = calls \o <<"openSettingsMenu", "closePopups">>
               /\ SetUpDriver_Fail("ElementClickInterceptedException")
          ELSE /\ calls' = calls \o <<"openSettingsMenu", "closePopups",
                                      "openSettingsMenu">>
               /\ IF openSettingsMenu(second) = ""
                  THEN dpc' = "country" /\ UNCHANGED <<drv, dexc>>
                  ELSE SetUpDriver_Fail(openSettingsMenu(second))
    /\ UNCHANGED <<country, currency, flagClass, currencyCode, site,
                   countryCall, currencyCall, flagSeen, currencySeen,
                   scrapeVars, sheetVars, methodVars>>

\* flagClass = ''; if country: flagClass = self.setUpCountry(driver, country)
SetUpDriver_Country ==
    /\ dpc = "country"
    /\ IF Truthy(country)
       THEN \E dropdownLoaded \in BOOLEAN, inputFound \in BOOLEAN :
              LET items == CountryItems(Lower(country))
                  r == setUpCountry(dropdownLoaded, inputFound, items)
              IN  /\ calls' = calls \o <<"setUpCountry">>
                  /\ countryCall' = Outcome(r)
                  /\ IF r.exc # ""
                     THEN SetUpDriver_Fail(r.exc)
                          /\ UNCHANGED <<flagClass, site>>
                     ELSE /\ flagClass' = r.value
                          /\ site' = IF r.clicked = 0 THEN site
                                     ELSE [site EXCEPT !.country =
                                             items[r.clicked].dataCode]
                          /\ dpc' = "currency"
                          /\ UNCHANGED <<drv, dexc>>
       ELSE /\ flagClass' = <<>>
            /\ dpc' = "currency"
            /\ UNCHANGED <<drv, dexc, site, calls, countryCall>>
    /\ UNCHANGED <<country, currency, currencyCode, currencyCall,
                   flagSeen, currencySeen, scrapeVars, sheetVars, methodVars>>

\* currencyCode = ''; if currency: currencyCode = self.setUpCurrency(...)
SetUpDriver_Currency ==
    /\ dpc = "currency"
    /\ IF Truthy(currency)
       THEN \E dropdownLoaded \in BOOLEAN, listFound \in BOOLEAN,
               listed \in BOOLEAN :
              LET results == IF listed THEN CurrencyItems(Lower(currency))
                             ELSE <<>>
                  r == setUpCurrency(dropdownLoaded, listFound, results)
              IN  /\ calls' = calls \o <<"setUpCurrency">>
                  /\ currencyCall' = Outcome(r)
                  /\ IF r.exc # ""
                     THEN SetUpDriver_Fail(r.exc)
                          /\ UNCHANGED <<currencyCode, site>>
                     ELSE /\ currencyCode' = r.value
                          /\ site' = IF r.clicked = 0 THEN site
                                     ELSE [site EXCEPT !.currency =
                                             SubSeq(results[r.clicked], 1, 3)]
                          /\ dpc' = "save"
                          /\ UNCHANGED <<drv, dexc>>
       ELSE /\ currencyCode' = <<>>
            /\ dpc' = "save"
            /\ UNCHANGED <<drv, dexc, site, calls, currencyCall>>
    /\ UNCHANGED <<country, currency, flagClass, countryCall,
                   flagSeen, currencySeen, scrapeVars, sheetVars, methodVars>>

\* injectCookie; saveSettingsMenu: click on 'ui-button'
SetUpDriver_Save ==
    /\ dpc = "save"
    /\ calls' = calls \o <<"injectCookie", "saveSettingsMenu">>
    /\ \E saveButton \in BOOLEAN :
          IF saveButton
          THEN dpc' = "wait" /\ UNCHANGED <<drv, dexc>>
          ELSE SetUpDriver_Fail(NavigationException("className"))
    /\ UNCHANGED <<country, currency, flagClass, currencyCode, site,
                   countryCall, currencyCall, flagSeen, currencySeen,
                   scrapeVars, sheetVars, methodVars>>

\* if country: wait until flagClass is in the flag's class attribute
\* else:       wait until currencyCode is in the currency text
\* The page reloads with the saved settings, or is still showing the
\* settings of a fresh session when the 3 seconds are over.
SetUpDriver_Wait ==
    /\ dpc = "wait"
    /\ \E reloaded \in BOOLEAN :
          LET shown == IF reloaded THEN site ELSE DefaultSite
          IN  IF Truthy(country)
              THEN IF Contains(FlagAttribute(shown), flagClass)
                   THEN /\ flagSeen' = TRUE
                        /\ dpc' = "returned"
                        /\ UNCHANGED <<currencySeen, drv, dexc>>
                   ELSE /\ SetUpDriver_Fail("TimeoutException")
                        /\ UNCHANGED <<flagSeen, currencySeen>>
              ELSE IF Contains(CurrencyText(shown), currencyCode)
                   THEN /\ currencySeen' = TRUE
                        /\ dpc' = "returned"
                        /\ UNCHANGED <<flagSeen, drv, dexc>>
                   ELSE /\ SetUpDriver_Fail("TimeoutException")
                        /\ UNCHANGED <<flagSeen, currencySeen>>
    /\ UNCHANGED <<country, currency, flagClass, currencyCode, site, calls,
                   countryCall, currencyCall, scrapeVars, sheetVars, methodVars>>

\* an argument the caller does not pass
Omitted == <<"<omitted>">>

\* def __init__ (self, country: str, currency: str, headless: bool = True,
\* debug: bool = False): what binding one of the two arguments gives
ScraperArgument(passed) ==
    IF passed = Omitted THEN "TypeError" ELSE ""

\* Scraper(country, currency, ...): the two arguments have no default;
\* super().__init__(country, currency, headless, debug) starts setUpDriver
Init_Call ==
    /\ spc = "new"
    /\ IF ScraperArgument(country) # "" \/ ScraperArgument(currency) # ""
       THEN /\ spc' = "failed"
            /\ exc' = "TypeError"
            /\ dpc' = dpc
       ELSE /\ spc' = "init"
            /\ exc' = exc
            /\ dpc' = "create"
    /\ UNCHANGED <<country, currency, drv, flagClass, currencyCode, site,
                   calls, countryCall, currencyCall, flagSeen, currencySeen,
                   dexc, current_url, tracking, retryCount, resets, steps,
                   dom, pageAvail, availResult, result, sheetVars,
                   methodVars>>

\* Driver.__init__ / Scraper.__init__: self.driver = self.setUpDriver(...);
\* self.retryCount = 0
Init_Return ==
    /\ spc = "init"
    /\ dpc = "returned"
    /\ spc' = "ready"
    /\ retryCount' = 0
    /\ UNCHANGED <<driverVars, current_url, tracking, resets, steps, dom,
                   pageAvail, availResult, result, exc, sheetVars, methodVars>>

\* setUpDriver raised: the constructor raises, there is no Scraper
Init_Raise ==
    /\ spc = "init"
    /\ dpc = "raised"
    /\ spc' = "failed"
    /\ exc' = dexc
    /\ UNCHANGED <<driverVars, current_url, tracking, retryCount, resets,
                   steps, dom, pageAvail, availResult, result, sheetVars, methodVars>>

---------------------------------------------------------------------------
(* scraperutils.getElement, Scraper.sanitizeURL and the two checks *)

\* parent.find_element(locatorMethod, locatorValue); on NoSuchElementException
\* the dict of the four navigation exceptions is built, By.XPATH first, and
\* exceptions[locatorMethod] is raised.  Building an entry that cannot be
\* constructed raises instead.
getElement(found, locatorMethod) ==
    LET order == <<"xpath", "className", "id", "tagName">>
        name == [xpath     |-> "InvalidXpathNavigationException",
                 className |-> "InvalidClassNameNavigationException",
                 id        |-> "InvalidIdNavigationException",
                 tagName   |-> "InvalidTagNameNavigationException"]
        broken == {i \in DOMAIN order :
                      NavigationException(order[i]) # name[order[i]]}
    IN  IF found THEN "element"
        ELSE IF broken # {} THEN NavigationException(order[Min(broken)])
        ELSE name[locatorMethod]

\* parent.find_elements(locatorMethod, locatorValue) with the same handler
\* of NoSuchElementException as getElement
getElements(raised, locatorMethod) ==
    IF raised THEN getElement(FALSE, locatorMethod) ELSE "elements"

\* the method with `index > 0` for `index >= 0`
sanitizeURL_Positive(url) ==
    LET marks == {i \in DOMAIN url : url[i] = "?"}
    IN  IF marks # {} /\ Min(marks) > 1
        THEN SubSeq(url, 1, Min(marks) - 1) ELSE url

\* url[:url.find('?')] when there is a '?', else url
sanitizeURL(url) ==
    LET marks == {i \in DOMAIN url : url[i] = "?"}
    IN  IF marks # {} THEN SubSeq(url, 1, Min(marks) - 1) ELSE url

\* the check with its two return statements exchanged
checkPageAvailability_Exchanged(notFoundPage) ==
    IF notFoundPage THEN "True" ELSE "False"

\* find_element(By.CLASS_NAME, 'not-found-page')
checkPageAvailability(notFoundPage) ==
    IF notFoundPage THEN "False" ELSE "True"

\* "True", "False" or the name of the exception that leaves the method
checkAvailability(messageFound, shippingLoaded, unreachableFound) ==
    LET first == getElement(messageFound, "className")
    IN  IF first = "element" THEN "False"
        ELSE IF first # "InvalidClassNameNavigationException" THEN first
        ELSE IF ~shippingLoaded THEN NavigationException("className")
        ELSE IF unreachableFound THEN "False"
        ELSE "True"

---------------------------------------------------------------------------
(* Scraper.scrapeURL *)

\* item urls handed to scrapeURL, with and without parameters
Urls == { <<"https://www.aliexpress.com/item/1.html">>,
          <<"https://www.aliexpress.com/item/1.html", "?", "spm=a">>,
          <<"https://www.aliexpress.com/item/2.html", "?", "a", "?", "b">> }

Unread == [notFound |-> "unread", nextMessage |-> "unread",
           dynamicShipping |-> "unread", unreachable |-> "unread"]

Found(b) == IF b THEN "present" ELSE "absent"

\* a call from outside (the test, on_click): url = self.sanitizeURL(url)
ScrapeURL_Call ==
    /\ spc \in {"ready", "returned", "raised"}
    /\ drv.alive
    /\ \E u \in Urls, t \in BOOLEAN :
          /\ current_url' = sanitizeURL(u)
          /\ tracking' = t
    /\ resets' = 0
    /\ steps' = <<>>
    /\ dom' = Unread
    /\ pageAvail' = ""
    /\ availResult' = ""
    /\ result' = <<>>
    /\ exc' = ""
    /\ spc' = "get"
    /\ UNCHANGED <<driverVars, retryCount, sheetVars, methodVars>>

\* self.current_url = url; self.driver.get(url)
ScrapeURL_Get ==
    /\ spc = "get"
    /\ drv' = [drv EXCEPT !.location = current_url]
    /\ steps' = Append(steps, "get")
    /\ spc' = "checkPage"
    /\ UNCHANGED <<country, currency, dpc, flagClass, currencyCode, site,
                   calls, countryCall, currencyCall, flagSeen, currencySeen,
                   dexc, current_url, tracking, retryCount, resets, dom,
                   pageAvail, availResult, result, exc, sheetVars, methodVars>>

\* a driver call inside the try block raises ConnectionError
ScrapeURL_ConnectionError ==
    /\ spc \in {"get", "checkPage", "checkAvail"}
    /\ spc' = "except"
    /\ UNCHANGED <<driverVars, current_url, tracking, retryCount, resets,
                   steps, dom, pageAvail, availResult, result, exc,
                   sheetVars, methodVars>>

\* if not self.checkPageAvailability(): return (0, 0)
ScrapeURL_CheckPageAvailability ==
    /\ spc = "checkPage"
    /\ \E notFoundPage \in BOOLEAN :
          /\ dom' = [dom EXCEPT !.notFound = Found(notFoundPage)]
          /\ pageAvail' = checkPageAvailability(notFoundPage)
          /\ IF checkPageAvailability(notFoundPage) = "False"
             THEN result' = <<0, 0>> /\ spc' = "returned"
             ELSE result' = result /\ spc' = "checkAvail"
    /\ steps' = Append(steps, "checkPageAvailability")
    /\ UNCHANGED <<driverVars, current_url, tracking, retryCount, resets,
                   availResult, exc, sheetVars, methodVars>>

\* if not self.checkAvailability(): return (0, 0)
\* 'dynamic-shipping-unreachable' is a child of 'dynamic-shipping'.
\* On True the try block goes on with selectFirstOptions; checkAvailability
\* never returns True (see getElement), so no step follows that position.
ScrapeURL_CheckAvailability ==
    /\ spc = "checkAvail"
    /\ \E messageFound \in BOOLEAN, shippingLoaded \in BOOLEAN,
          unreachableFound \in BOOLEAN :
          LET r == checkAvailability(messageFound, shippingLoaded,
                                     unreachableFound)
          IN  /\ unreachableFound => shippingLoaded
              /\ dom' = [dom EXCEPT
                           !.nextMessage = Found(messageFound),
                           !.dynamicShipping = Found(shippingLoaded),
                           !.unreachable = Found(unreachableFound)]
              /\ availResult' = r
              /\ CASE r = "False" ->
                        result' = <<0, 0>> /\ spc' = "returned" /\ exc' = exc
                   [] r = "True" ->
                        result' = result /\ spc' = "selectFirstOptions"
                        /\ exc' = exc
                   [] OTHER ->
                        result' = result /\ spc' = "raised" /\ exc' = r
    /\ steps' = Append(steps, "checkAvailability")
    /\ UNCHANGED <<driverVars, current_url, tracking, retryCount, resets,
                   pageAvail, sheetVars, methodVars>>

\* except ConnectionError: (log when retryCount >= RETRIES;) retryCount += 1;
\* resetDriver(): close the driver and start setUpDriver again
ScrapeURL_HandleConnectionError ==
    /\ spc = "except"
    /\ retryCount < MaxRetryCount
    /\ retryCount' = retryCount + 1
    /\ resets' = resets + 1
    /\ drv' = [drv EXCEPT !.alive = FALSE]
    /\ dpc' = "create"
    /\ spc' = "reset"
    /\ UNCHANGED <<country, currency, flagClass, currencyCode, site, calls,
                   countryCall, currencyCall, flagSeen, currencySeen, dexc,
                   current_url, tracking, steps, dom, pageAvail, availResult,
                   result, exc, sheetVars, methodVars>>

\* resetDriver returned: return self.scrapeURL(url, tracking)
ResetDriver_Return ==
    /\ spc = "reset"
    /\ dpc = "returned"
    /\ current_url' = sanitizeURL(current_url)
    /\ steps' = <<>>
    /\ dom' = Unread
    /\ pageAvail' = ""
    /\ availResult' = ""
    /\ spc' = "get"
    /\ UNCHANGED <<driverVars, tracking, retryCount, resets, result, exc,
                   sheetVars, methodVars>>

\* setUpDriver raised inside resetDriver: the exception leaves scrapeURL
ResetDriver_Raise ==
    /\ spc = "reset"
    /\ dpc = "raised"
    /\ spc' = "raised"
    /\ exc' = dexc
    /\ UNCHANGED <<driverVars, current_url, tracking, retryCount, resets,
                   steps, dom, pageAvail, availResult, result, sheetVars, methodVars>>

---------------------------------------------------------------------------
(* The Scraper life cycle *)

EmptySheet == [r \in 1..(3 + MaxRows) |-> [A |-> "", B |-> "", C |-> "", D |-> ""]]

Init ==
    /\ country \in Countries \cup {Omitted}
    /\ currency \in Currencies \cup {Omitted}
    /\ drv = [alive |-> FALSE, location |-> BlankPage]
    /\ dpc = "idle"
    /\ flagClass = <<>>
    /\ currencyCode = <<>>
    /\ site = DefaultSite
    /\ calls = <<>>
    /\ countryCall = NoCall
    /\ currencyCall = NoCall
    /\ flagSeen = FALSE
    /\ currencySeen = FALSE
    /\ dexc = ""
    /\ spc = "new"
    /\ current_url = <<>>
    /\ tracking = FALSE
    /\ retryCount = 0
    /\ resets = 0
    /\ steps = <<>>
    /\ dom = Unread
    /\ pageAvail = ""
    /\ availResult = ""
    /\ result = <<>>
    /\ exc = ""
    /\ sheet = EmptySheet
    /\ opc = "idle"
    /\ urls = <<>>
    /\ pairs = <<>>
    /\ written = {}
    /\ oexc = ""
    /\ method = ""
    /\ minput = <<>>
    /\ mret = <<>>
    /\ mexc = ""

Next ==
    \/ SetUpDriver_Create
    \/ SetUpDriver_OpenSettingsMenu
    \/ SetUpDriver_Country
    \/ SetUpDriver_Currency
    \/ SetUpDriver_Save
    \/ SetUpDriver_Wait
    \/ Init_Call
    \/ Init_Return
    \/ Init_Raise
    \/ ScrapeURL_Call
    \/ ScrapeURL_Get
    \/ ScrapeURL_ConnectionError
    \/ ScrapeURL_CheckPageAvailability
    \/ ScrapeURL_CheckAvailability
    \/ ScrapeURL_HandleConnectionError
    \/ ResetDriver_Return
    \/ ResetDriver_Raise

Spec == Init /\ [][Next]_vars

---------------------------------------------------------------------------
(* sheetManager/sheet_manager.py *)

Max(S) == CHOOSE x \in S : \A y \in S : x >= y

\* worksheet.col_values(col): the column from row 1 down to its last filled
\* cell; empty cells in between are '', the empty tail is left out
col_values(sh, col) ==
    LET filled == {r \in DOMAIN sh : sh[r][col] # ""}
    IN  IF filled = {} THEN <<>>
        ELSE [r \in 1..Max(filled) |-> sh[r][col]]

\* s[n:]
Drop(s, n) == IF Len(s) <= n THEN <<>> ELSE SubSeq(s, n + 1, Len(s))

\* [url for url, price in zip(all_urls, prices) if not price]
RECURSIVE ZipFilter(_, _)
ZipFilter(all_urls, prices) ==
    IF Len(all_urls) = 0 \/ Len(prices) = 0 THEN <<>>
    ELSE IF Head(prices) = ""
         THEN <<Head(all_urls)>> \o ZipFilter(Tail(all_urls), Tail(prices))
         ELSE ZipFilter(Tail(all_urls), Tail(prices))

\* the same comprehension without the extend that follows it
getItemUrls_NoExtend(sh) ==
    ZipFilter(Drop(col_values(sh, "A"), 3), Drop(col_values(sh, "C"), 3))

\* SheetManager.getItemUrls
getItemUrls(sh) ==
    LET all_urls == Drop(col_values(sh, "A"), 3)
        prices   == Drop(col_values(sh, "C"), 3)
    IN  ZipFilter(all_urls, prices) \o Drop(all_urls, Len(prices))

\* SheetManager.itemPriceCells: the cells the generator yields while it walks
\* the modelled rows, in order; a cell name is <<column, row>>
RECURSIVE EmptyPriceCells(_, _)
EmptyPriceCells(sh, enum) ==
    IF enum \notin DOMAIN sh THEN <<>>
    ELSE IF sh[enum].C = ""
         THEN << <<(<<"C", enum>>), (<<"D", enum>>)>> >>
              \o EmptyPriceCells(sh, enum + 1)
         ELSE EmptyPriceCells(sh, enum + 1)

itemPriceCells(sh) == EmptyPriceCells(sh, 4)

---------------------------------------------------------------------------
(* App.on_click *)

\* sheets tried: any filling of columns A and C below the header rows, with
\* or without headers in the three rows above
CellUrls == {"", "item/1", "item/2"}
CellPrices == {"", "4.12"}

Sheets ==
    { [r \in 1..(3 + MaxRows) |->
          IF r <= 3 THEN [A |-> headA, B |-> "", C |-> headC, D |-> ""]
          ELSE [A |-> body[r].A, B |-> "", C |-> body[r].C, D |-> ""]] :
      headA \in {"", "url"}, headC \in {"", "price"},
      body \in [4..(3 + MaxRows) -> [A : CellUrls, C : CellPrices]] }

\* sh = SheetManager(url): SpreadsheetNotFound and NoValidUrlKeyFound are
\* shown and on_click returns; urls = sh.getItemUrls(); without urls
\* on_click re-enables the input and returns
OnClick_GetItemUrls ==
    /\ opc = "idle"
    /\ \E opened \in BOOLEAN :
          IF opened
          THEN /\ urls' = getItemUrls(sheet)
               /\ opc' = IF getItemUrls(sheet) = <<>> THEN "done"
                         ELSE "getTracking"
          ELSE /\ urls' = urls
               /\ opc' = "urlError"
    /\ UNCHANGED <<driverVars, scrapeVars, methodVars, sheet, pairs, written,
                   oexc>>

\* if urls: trackings = sh.getTracking()
\* SheetManager has no getTracking: the attribute lookup raises
OnClick_GetTracking ==
    /\ opc = "getTracking"
    /\ opc' = "raised"
    /\ oexc' = "AttributeError"
    /\ UNCHANGED <<driverVars, scrapeVars, methodVars, sheet, urls, pairs,
                   written>>

SheetInit ==
    /\ country = None
    /\ currency = None
    /\ drv = [alive |-> FALSE, location |-> BlankPage]
    /\ dpc = "create"
    /\ flagClass = <<>>
    /\ currencyCode = <<>>
    /\ site = DefaultSite
    /\ calls = <<>>
    /\ countryCall = NoCall
    /\ currencyCall = NoCall
    /\ flagSeen = FALSE
    /\ currencySeen = FALSE
    /\ dexc = ""
    /\ spc = "unbuilt"
    /\ current_url = <<>>
    /\ tracking = FALSE
    /\ retryCount = 0
    /\ resets = 0
    /\ steps = <<>>
    /\ dom = Unread
    /\ pageAvail = ""
    /\ availResult = ""
    /\ result = <<>>
    /\ exc = ""
    /\ sheet \in Sheets
    /\ opc = "idle"
    /\ urls = <<>>
    /\ pairs = <<>>
    /\ written = {}
    /\ oexc = ""
    /\ method = ""
    /\ minput = <<>>
    /\ mret = <<>>
    /\ mexc = ""

SheetNext ==
    \/ OnClick_GetItemUrls
    \/ OnClick_GetTracking

SpecSheet == SheetInit /\ [][SheetNext]_vars

---------------------------------------------------------------------------
(* Scraper's methods on the page the driver is at *)

\* bounds of the texts, urls and option lists drawn
MaxTextLen     == 5
MaxPageTextLen == 2
MaxUrlLen      == 4
MaxOptions     == 3

\* the characters of a price text: digits, the two separators, any other
Digits     == {"0", "5"}
Separators == {",", "."}
PriceChars == Digits \cup Separators \cup {"$"}

\* the texts of at most n characters
Texts(chars, n) == UNION {[1..k -> chars] : k \in 0..n}

\* what find_element(By.CLASS_NAME, className) gives: NoSuchElementException
\* or an element with its text
Absent == [found |-> FALSE, text |-> <<>>]

Elements(texts) == {Absent} \cup {[found |-> TRUE, text |-> t] : t \in texts}

\* for className in possible_classes: try: price_elem = find_element(...);
\* string = price_elem.text; break; except NoSuchElementException: next one
RECURSIVE FirstElementText(_)
FirstElementText(elems) ==
    IF elems = <<>> THEN <<>>
    ELSE IF Head(elems).found THEN Head(elems).text
    ELSE FirstElementText(Tail(elems))

\* elems: the elements of 'uniform-banner-box-price', 'product-price-value'
getItemPriceString(elems) ==
    LET itemPriceString == FirstElementText(elems)
    IN  IF itemPriceString = <<>>
        THEN [exc |-> "ItemPriceNotFoundException", ret |-> <<>>]
        ELSE [exc |-> "", ret |-> itemPriceString]

\* the method without its check of the string
getShippingPriceString_NoCheck(elems) ==
    [exc |-> "", ret |-> FirstElementText(elems)]

\* elems: the element of 'dynamic-shipping'
getShippingPriceString(elems) ==
    LET shippingPriceString == FirstElementText(elems)
    IN  IF shippingPriceString = <<>>
        THEN [exc |-> "ShippingPriceNotFoundException", ret |-> <<>>]
        ELSE [exc |-> "", ret |-> shippingPriceString]

\* the texts of the 'dynamic-shipping-mark' elements
TrackingAvailable == "Tracking Available"

OptionTexts == {TrackingAvailable, "Tracking Unavailable", ""}

\* the lists find_elements gives once the wait has seen one such element
OptionLists == UNION {[1..k -> OptionTexts] : k \in 1..MaxOptions}

\* the loop without its break
TrackingClicks_NoBreak(options) ==
    LET RECURSIVE From(_)
        From(i) ==
            IF i > Len(options) THEN <<>>
            ELSE (IF options[i] = TrackingAvailable THEN <<i>> ELSE <<>>)
                 \o From(i + 1)
    IN  From(1)

\* for option in shippingOptions: if option.text == 'Tracking Available':
\* found = True; option.click(); break -- the options clicked, by position
TrackingClicks(options) ==
    LET tracked == {i \in DOMAIN options : options[i] = TrackingAvailable}
    IN  IF tracked = {} THEN <<>> ELSE <<Min(tracked)>>

\* buttonLoaded, listLoaded: the outcomes of the two WebDriverWait;
\* buttons: the number of 'comet-btn' elements; options: the option texts.
\* pressed: the buttons clicked, clicked: the shipping options clicked
setShippingTracking(buttonLoaded, listLoaded, buttons, options) ==
    IF ~buttonLoaded
    THEN [exc |-> NavigationException("className"),
          ret |-> [pressed |-> <<>>, clicked |-> <<>>]]
    ELSE IF ~listLoaded
    THEN [exc |-> NavigationException("className"),
          ret |-> [pressed |-> <<1>>, clicked |-> <<>>]]
    ELSE LET found == TrackingClicks(options)
         IN  [exc |-> "",
              ret |-> [pressed |-> IF buttons > 1 THEN <<1, 2>> ELSE <<1>>,
                       clicked |-> IF found # <<>> THEN found ELSE <<1>>]]

\* the characters of a url: '?' and two others
UrlChars == {"a", "/", "?"}

\* str.replace(old, new) on single characters
Replace(s, old, new) ==
    [i \in DOMAIN s |-> IF s[i] = old THEN new ELSE s[i]]

\* re.search('([\d.,]+)', price).groups()[0]: the first longest run of
\* digits, '.' and ','; None when the text has no such character
Search(price) ==
    LET class == Digits \cup Separators
        starts == {i \in DOMAIN price : price[i] \in class}
    IN  IF starts = {} THEN None
        ELSE LET first == Min(starts)
                 stops == {j \in first..Len(price) :
                              j = Len(price) \/ price[j + 1] \notin class}
             IN  SubSeq(price, first, Min(stops))

\* the value of one digit
DigitValue(c) == IF c = "5" THEN 5 ELSE 0

\* the number a string of digits writes (0 for the empty string)
RECURSIVE Number(_)
Number(digits) ==
    IF digits = <<>> THEN 0
    ELSE 10 * Number(SubSeq(digits, 1, Len(digits) - 1))
         + DigitValue(digits[Len(digits)])

\* decimals without the zeros at their end, which do not change the value
RECURSIVE Significant(_)
Significant(decimals) ==
    IF decimals = <<>> THEN <<>>
    ELSE IF decimals[Len(decimals)] = "0"
         THEN Significant(SubSeq(decimals, 1, Len(decimals) - 1))
         ELSE decimals

\* float(s) for a string of digits, '.' and ',': digits with at most one
\* '.', and at least one digit, are a number ('5', '5.', '.5', '0.50');
\* everything else is a ValueError.  The number is its whole part and its
\* significant decimals.
float(s) ==
    LET points == {i \in DOMAIN s : s[i] = "."}
        point == IF points = {} THEN Len(s) + 1 ELSE Min(points)
    IN  IF /\ \A i \in DOMAIN s : s[i] \in Digits \cup {"."}
           /\ Cardinality(points) <= 1
           /\ \E i \in DOMAIN s : s[i] \in Digits
        THEN [exc |-> "",
              ret |-> [whole    |-> Number(SubSeq(s, 1, point - 1)),
                       decimals |-> Significant(SubSeq(s, point + 1,
                                                       Len(s)))]]
        ELSE [exc |-> "ValueError", ret |-> <<>>]

\* return float(re.search(pattern, price).groups()[0]); None has no groups
convertPriceToFloat(price) ==
    IF Search(price) = None
    THEN [exc |-> "AttributeError", ret |-> <<>>]
    ELSE float(Search(price))

\* return self.convertPriceToFloat(self.getItemPriceString().replace(',', '.'))
getItemPrice(elems) ==
    LET string == getItemPriceString(elems)
    IN  IF string.exc # "" THEN string
        ELSE convertPriceToFloat(Replace(string.ret, ",", "."))

\* By.XPATH, By.CLASS_NAME, By.ID, By.TAG_NAME
LocatorMethods == {"xpath", "className", "id", "tagName"}

\* the Scraper all these calls are made on: Scraper('United States', 'USD')
\* after its constructor returned
MethodsInit ==
    /\ country = <<"United States">>
    /\ currency = <<"U", "S", "D">>
    /\ drv = [alive |-> TRUE, location |-> URL]
    /\ dpc = "returned"
    /\ flagClass = <<"css_", "us">>
    /\ currencyCode = <<"U", "S", "D">>
    /\ site = [country |-> <<"us">>, currency |-> <<"U", "S", "D">>]
    /\ calls = <<"get", "closePopups", "openSettingsMenu", "setUpCountry",
                 "setUpCurrency", "injectCookie", "saveSettingsMenu">>
    /\ countryCall = [exc |-> "", filtered |-> TRUE, clicked |-> 3]
    /\ currencyCall = [exc |-> "", filtered |-> TRUE, clicked |-> 2]
    /\ flagSeen = TRUE
    /\ currencySeen = FALSE
    /\ dexc = ""
    /\ spc = "ready"
    /\ current_url = <<>>
    /\ tracking = FALSE
    /\ retryCount = 0
    /\ resets = 0
    /\ steps = <<>>
    /\ dom = Unread
    /\ pageAvail = ""
    /\ availResult = ""
    /\ result = <<>>
    /\ exc = ""
    /\ sheet = EmptySheet
    /\ opc = "idle"
    /\ urls = <<>>
    /\ pairs = <<>>
    /\ written = {}
    /\ oexc = ""
    /\ method = ""
    /\ minput = <<>>
    /\ mret = <<>>
    /\ mexc = ""

\* the Scraper is built and no method has been called on it yet
Callable == method = "" /\ spc = "ready"

\* what the call was given, and what it returned
Input    == minput[1]
Returned == mret[1]

\* one call of a method: what it was given, what it returned or raised
MethodCall(name, input, r) ==
    /\ method' = name
    /\ minput' = <<input>>
    /\ mret' = <<r.ret>>
    /\ mexc' = r.exc
    /\ UNCHANGED <<driverVars, scrapeVars, sheetVars>>

GetItemPriceString ==
    /\ Callable
    /\ \E banner, product \in Elements(Texts(PriceChars, MaxPageTextLen)) :
           MethodCall("getItemPriceString", <<banner, product>>,
                      getItemPriceString(<<banner, product>>))

GetShippingPriceString ==
    /\ Callable
    /\ \E shipping \in Elements(Texts(PriceChars, MaxTextLen)) :
           MethodCall("getShippingPriceString", <<shipping>>,
                      getShippingPriceString(<<shipping>>))

SetShippingTracking ==
    /\ Callable
    /\ \E buttonLoaded, listLoaded \in BOOLEAN, buttons \in 1..2,
          options \in OptionLists :
           MethodCall("setShippingTracking",
                      [buttonLoaded |-> buttonLoaded, listLoaded |-> listLoaded,
                       buttons |-> buttons, options |-> options],
                      setShippingTracking(buttonLoaded, listLoaded, buttons,
                                          options))

\* sanitizeURL(url), and sanitizeURL of what it returned
SanitizeURL ==
    /\ Callable
    /\ \E url \in Texts(UrlChars, MaxUrlLen) :
           MethodCall("sanitizeURL", url,
                      [exc |-> "",
                       ret |-> [once  |-> sanitizeURL(url),
                                twice |-> sanitizeURL(sanitizeURL(url))]])

\* the lookups getItemPriceString makes: the second class is looked up
\* only when the first one has no element
GetItemPrice ==
    /\ Callable
    /\ \E banner \in Elements(Texts(PriceChars, MaxTextLen)) :
           \E rest \in IF banner.found THEN {<<>>}
                       ELSE {<<product>> :
                               product \in Elements(Texts(PriceChars,
                                                          MaxTextLen))} :
               MethodCall("getItemPrice", <<banner>> \o rest,
                          getItemPrice(<<banner>> \o rest))

\* utils.getElement(parent, locatorMethod, locatorValue, url, elementName)
GetElement ==
    /\ Callable
    /\ \E found \in BOOLEAN, locatorMethod \in LocatorMethods :
           LET r == getElement(found, locatorMethod)
           IN  MethodCall("getElement",
                          [raised |-> ~found, locatorMethod |-> locatorMethod],
                          IF found THEN [exc |-> "", ret |-> <<r>>]
                          ELSE [exc |-> r, ret |-> <<>>])

\* utils.getElements(parent, locatorMethod, locatorValue, url, elementName)
GetElements ==
    /\ Callable
    /\ \E raised \in BOOLEAN, locatorMethod \in LocatorMethods :
           LET r == getElements(raised, locatorMethod)
           IN  MethodCall("getElements",
                          [raised |-> raised, locatorMethod |-> locatorMethod],
                          IF raised THEN [exc |-> r, ret |-> <<>>]
                          ELSE [exc |-> "", ret |-> <<r>>])

MethodsNext ==
    \/ GetItemPriceString
    \/ GetShippingPriceString
    \/ SetShippingTracking
    \/ SanitizeURL
    \/ GetItemPrice
    \/ GetElement
    \/ GetElements

SpecMethods == MethodsInit /\ [][MethodsNext]_vars

---------------------------------------------------------------------------
(* Properties of Scraper.scrapeURL *)

\* C1: one call of scrapeURL resets the driver and retries at most RETRIES
\* times, so that it ends even when every attempt raises ConnectionError.
C1_RetriesBounded == resets <= RETRIES

NoneOf(trace, names) == \A i \in DOMAIN trace : trace[i] \notin names

\* C2: when the product page is removed (checkPageAvailability is False) or
\* the item is unavailable (checkAvailability is False), scrapeURL returns
\* (0, 0) and has selected no option, read no price and selected no shipping.
C2_UnavailableReturnsZero ==
    (dom.notFound = "present" \/ pageAvail = "False" \/ availResult = "False")
    => /\ spc = "returned"
       /\ result = <<0, 0>>
       /\ exc = ""
       /\ NoneOf(steps, {"selectFirstOptions", "getItemPrice",
                         "setShippingTracking", "getShippingPriceString"})

\* an unavailable item on a page that exists, after a retry
C2_Witness ==
    /\ spc = "returned"
    /\ pageAvail = "True"
    /\ availResult = "False"
    /\ result = <<0, 0>>
    /\ resets > 0

\* C3: checkAvailability returns True on a page without 'next-message-content',
\* with 'dynamic-shipping' and without 'dynamic-shipping-unreachable'; it
\* returns False when one of the two unavailability elements is there; it
\* raises only when 'dynamic-shipping' does not load.
C3_CheckAvailability ==
    availResult # ""
    => /\ ( /\ dom.nextMessage = "absent"
            /\ dom.dynamicShipping = "present"
            /\ dom.unreachable = "absent" ) => availResult = "True"
       /\ ( \/ dom.nextMessage = "present"
            \/ dom.unreachable = "present" ) => availResult = "False"
       /\ availResult \notin {"True", "False"}
             => dom.dynamicShipping = "absent"

Position(trace, name) ==
    IF \E i \in DOMAIN trace : trace[i] = name
    THEN Min({i \in DOMAIN trace : trace[i] = name}) ELSE 0

\* C4: for an available item scrapeURL returns the pair (item price, shipping
\* price); setShippingTracking runs exactly when tracking is true, after the
\* item price is read and before the shipping text is read.
C4_AvailableItemReturnsPair ==
    ( /\ spc \in {"returned", "raised"}
      /\ dom.notFound = "absent"
      /\ dom.nextMessage = "absent"
      /\ dom.dynamicShipping = "present"
      /\ dom.unreachable = "absent" )
    => /\ spc = "returned"
       /\ Len(result) = 2
       /\ Position(steps, "getItemPrice") > 0
       /\ Position(steps, "getShippingPriceString")
             > Position(steps, "getItemPrice")
       /\ tracking <=> Position(steps, "setShippingTracking") > 0
       /\ tracking => /\ Position(steps, "setShippingTracking")
                            > Position(steps, "getItemPrice")
                      /\ Position(steps, "setShippingTracking")
                            < Position(steps, "getShippingPriceString")

---------------------------------------------------------------------------
(* Properties of the spreadsheet side *)

\* C5: on_click pairs the k-th url of getItemUrls with the k-th empty
\* column-C cell of itemPriceCells, and what it writes for a url goes to
\* columns C and D of that cell's row.
C5_UrlsPairedWithCells ==
    opc \in {"done", "raised"}
    => /\ Len(pairs) = Len(urls)
       /\ \A k \in DOMAIN pairs :
             /\ k <= Len(itemPriceCells(sheet))
             /\ pairs[k] = <<urls[k], itemPriceCells(sheet)[k]>>
       /\ \A cell \in written :
             \E k \in DOMAIN pairs : cell \in {pairs[k][2][1], pairs[k][2][2]}

\* the column-A values of the rows from 4 to the last filled column-A cell
\* whose column-C cell is empty, by ascending row
ExpectedItemUrls(sh) ==
    LET filledA == {r \in DOMAIN sh : sh[r].A # ""}
        lastA == IF filledA = {} THEN 0 ELSE Max(filledA)
        rows == {r \in 4..lastA : sh[r].C = ""}
        nth(k) == CHOOSE r \in rows : Cardinality({q \in rows : q <= r}) = k
    IN  [k \in 1..Cardinality(rows) |-> sh[nth(k)].A]

\* C6: getItemUrls returns, in sheet order, the column-A values of the rows 4
\* and below whose column-C cell is empty, the rows below the last filled
\* column-C cell included; rows that have an item price are left out.
C6_GetItemUrls ==
    opc \in {"getTracking", "done", "raised"} => urls = ExpectedItemUrls(sheet)

\* a sheet with a priced row that is skipped and an unpriced row below the
\* last filled column-C cell
C6_Witness ==
    /\ opc = "getTracking"
    /\ \E r \in 4..(3 + MaxRows) : sheet[r].A # "" /\ sheet[r].C # ""
    /\ \E r \in 4..(3 + MaxRows) :
          /\ r > Len(col_values(sheet, "C"))
          /\ Len(col_values(sheet, "C")) > 3
          /\ sheet[r].A # ""
          /\ sheet[r].A = urls[Len(urls)]

---------------------------------------------------------------------------
(* Properties of Driver.setUpDriver *)

\* C7: setUpCountry raises InvalidCountryException, and does not return, when
\* after filtering no list item with a data-name is visible.
C7_InvalidCountryRaises ==
    (countryCall.filtered /\ countryCall.clicked = 0)
    => (dpc = "raised" /\ countryCall.exc = "InvalidCountryException")

\* C8: setUpCurrency raises InvalidCurrencyException, and does not return,
\* when after filtering no list item has visible text.
C8_InvalidCurrencyRaises ==
    (currencyCall.filtered /\ currencyCall.clicked = 0)
    => (dpc = "raised" /\ currencyCall.exc = "InvalidCurrencyException")

\* setUpDriver has returned to Driver.__init__ or to resetDriver
SetUpDriverReturned == dpc = "returned" /\ spc \in {"init", "reset"}

\* C9: when setUpDriver is called with a country and a currency and returns,
\* the settings display has been seen to show the flag class of the selected
\* country and the code of the selected currency.
C9_BothSettingsConfirmed ==
    (SetUpDriverReturned /\ Truthy(country) /\ Truthy(currency))
    => (flagSeen /\ currencySeen)

\* C10: setUpDriver returns a driver that has been navigated to Driver.URL,
\* for every country and currency, None included.
C10_DriverAtUrl ==
    SetUpDriverReturned => (drv.alive /\ drv.location = URL)

\* C11: a Scraper can be built without a country and a currency,
\* Scraper(headless=True, debug=True), and then be used for scrapeURL with
\* the settings of a fresh session.
C11_EmptyScraperBuilt ==
    (country = Omitted /\ currency = Omitted /\ spc # "new")
    => (spc # "failed" /\ exc # "TypeError")

---------------------------------------------------------------------------
(* Properties of the page methods *)

\* C12: getItemPriceString returns a non-empty price text whenever one of
\* the classes 'uniform-banner-box-price', 'product-price-value' has an
\* element with non-empty text, and raises ItemPriceNotFoundException
\* exactly when none of them has.
C12_ItemPriceString ==
    method = "getItemPriceString" =>
        LET some == \E i \in DOMAIN Input :
                        Input[i].found /\ Input[i].text # <<>>
        IN  /\ some => (mexc = "" /\ Returned # <<>>)
            /\ ~some <=> mexc = "ItemPriceNotFoundException"


\* C13: getShippingPriceString returns the text of the 'dynamic-shipping'
\* element when the element exists and its text is not empty, raises
\* ShippingPriceNotFoundException when the element is absent or its text is
\* empty, and never returns an empty string.
C13_ShippingPriceString ==
    method = "getShippingPriceString" =>
        LET shipping == Input[1]
        IN  /\ (shipping.found /\ shipping.text # <<>>)
                   => (mexc = "" /\ Returned = shipping.text)
            /\ (~shipping.found \/ shipping.text = <<>>)
                   => mexc = "ShippingPriceNotFoundException"
            /\ mexc = "" => Returned # <<>>

C13_Witness ==
    /\ method = "getShippingPriceString"
    /\ Input[1].found
    /\ mexc = ""
    /\ Returned = <<"$", "5", ",", "5", "0">>


\* C14: a setShippingTracking call that gets to the list of shipping options
\* clicks exactly one of them: the first one, in list order, whose text is
\* 'Tracking Available', and the first option when no option has that text.
\* A call that raises before the list is read clicks no option.
C14_ShippingTracking ==
    method = "setShippingTracking" =>
        LET options == Input.options
            tracked(i) == options[i] = TrackingAvailable
        IN  /\ mexc = "" =>
                  /\ Len(Returned.clicked) = 1
                  /\ LET k == Returned.clicked[1]
                     IN  \/ tracked(k) /\ \A j \in 1..(k - 1) : ~tracked(j)
                         \/ k = 1 /\ \A j \in DOMAIN options : ~tracked(j)
            /\ mexc # "" => Returned.clicked = <<>>

C14_Witness ==
    /\ method = "setShippingTracking"
    /\ mexc = ""
    /\ Input.options = <<"", TrackingAvailable, TrackingAvailable>>
    /\ Returned.clicked = <<2>>


\* C15: sanitizeURL returns its input up to, and without, the first '?',
\* and the input itself when it has no '?'; the result never contains '?',
\* and sanitizing the result again gives the same result.
C15_SanitizeURL ==
    method = "sanitizeURL" =>
        LET url == Input
            n == Len(Returned.once)
        IN  /\ n <= Len(url)
            /\ Returned.once = SubSeq(url, 1, n)
            /\ \A i \in 1..n : url[i] # "?"
            /\ n < Len(url) => url[n + 1] = "?"
            /\ Returned.twice = Returned.once

C15_Witness ==
    /\ method = "sanitizeURL"
    /\ Input = <<"/", "a", "?", "?">>
    /\ Returned.once = <<"/", "a">>
    /\ Returned.twice = <<"/", "a">>


\* a price text: groups of digits with one ',' or '.' between two groups,
\* with or without other characters before and after
PriceText(text) ==
    LET class == Digits \cup Separators
        inside == {i \in DOMAIN text : text[i] \in class}
    IN  /\ inside # {}
        /\ \A i \in Min(inside)..Max(inside) : text[i] \in class
        /\ text[Min(inside)] \in Digits
        /\ text[Max(inside)] \in Digits
        /\ \A i \in inside : text[i] \in Separators => text[i + 1] \in Digits

\* the price of a price text: the digits before its last separator, and
\* the digits after it as decimals
PriceOf(text) ==
    LET marks == {i \in DOMAIN text : text[i] \in Separators}
        digits(from, to) ==
            LET at == {i \in from..to : text[i] \in Digits}
                RECURSIVE Upto(_)
                Upto(i) == IF i < from THEN <<>>
                           ELSE Upto(i - 1)
                                \o (IF i \in at THEN <<text[i]>> ELSE <<>>)
            IN  Upto(to)
    IN  IF marks = {}
        THEN [whole |-> Number(digits(1, Len(text))), decimals |-> <<>>]
        ELSE [whole |-> Number(digits(1, Max(marks) - 1)),
              decimals |-> Significant(digits(Max(marks) + 1, Len(text)))]

\* C16: getItemPrice turns every price text, digits with ',' or '.' as
\* separators with or without a currency symbol or text around them, into
\* its price, and does not raise for it.
C16_PriceConverted ==
    (method = "getItemPrice" /\ \E i \in DOMAIN Input : Input[i].found)
    => LET text == Input[Len(Input)].text
       IN  PriceText(text) => (mexc = "" /\ Returned = PriceOf(text))


\* C17: when the lookup raises NoSuchElementException, getElement and
\* getElements raise the navigation exception of the locator method, and no
\* exception of another type.
C17_NavigationExceptionRaised ==
    (method \in {"getElement", "getElements"} /\ Input.raised)
    => mexc = CASE Input.locatorMethod = "xpath"
                     -> "InvalidXpathNavigationException"
                [] Input.locatorMethod = "className"
                     -> "InvalidClassNameNavigationException"
                [] Input.locatorMethod = "id"
                     -> "InvalidIdNavigationException"
                [] Input.locatorMethod = "tagName"
                     -> "InvalidTagNameNavigationException"

---------------------------------------------------------------------------
(* Properties of the settings menu step of Driver.setUpDriver *)

\* how many times m was called in this run of setUpDriver
Count(c, m) == Cardinality({i \in DOMAIN c : c[i] = m})

\* closePopups was run right after an openSettingsMenu, which setUpDriver
\* does only in its except ElementClickInterceptedException branch
Intercepted ==
    \E i \in DOMAIN calls :
        /\ calls[i] = "openSettingsMenu"
        /\ i + 1 \in DOMAIN calls
        /\ calls[i + 1] = "closePopups"

\* ElementClickInterceptedException left setUpDriver out of openSettingsMenu
AbortedAtOpening ==
    /\ dpc = "raised"
    /\ dexc = "ElementClickInterceptedException"
    /\ calls # <<>>
    /\ calls[Len(calls)] = "openSettingsMenu"

\* C18 as stated: when openSettingsMenu raises
\* ElementClickInterceptedException, closePopups is run once more and
\* openSettingsMenu is attempted exactly one more time; a second
\* ElementClickInterceptedException is not retried and aborts the setup.
C18_RetriedExactlyOnce ==
    /\ Intercepted => /\ Count(calls, "closePopups") = 2
                      /\ Count(calls, "openSettingsMenu") = 2
    /\ AbortedAtOpening => Count(calls, "openSettingsMenu") = 2

\* C18, amended: when openSettingsMenu raises
\* ElementClickInterceptedException, closePopups is run once more; unless
\* that run of closePopups raises ElementClickInterceptedException itself,
\* which aborts the setup without another attempt, openSettingsMenu is
\* attempted exactly one more time.  It is never attempted a third time:
\* only the second ElementClickInterceptedException of openSettingsMenu
\* aborts the setup.
C18_RetriedOnceUnlessPopupsIntercept ==
    /\ Count(calls, "openSettingsMenu") <= 2
    /\ Intercepted =>
          /\ Count(calls, "closePopups") = 2
          /\ \/ Count(calls, "openSettingsMenu") = 2
             \/ /\ Count(calls, "openSettingsMenu") = 1
                /\ calls[Len(calls)] = "closePopups"
                /\ dpc = "raised"
                /\ dexc = "ElementClickInterceptedException"
    /\ AbortedAtOpening => Count(calls, "openSettingsMenu") = 2

C18_Witness ==
    /\ dpc = "raised"
    /\ dexc = "ElementClickInterceptedException"
    /\ calls = <<"get", "closePopups", "openSettingsMenu", "closePopups",
                 "openSettingsMenu">>

===========================================================================
